---- MODULE Spec2Model ----
(***************************************************************************)
(* State-machine model of the event tools of src/src/server.py:            *)
(* create_my_event, update_my_event and delete_my_event acting on a remote *)
(* CalDAV store.                                                           *)
(*                                                                         *)
(* A VEVENT is modelled as icalendar models it: a dictionary of properties *)
(* (a property that is not set is absent) plus its VALARM subcomponents in *)
(* order.  An optional value is a sequence of length <= 1: <<>> is Python's *)
(* None / a missing key, <<v>> is the value v.  The remote store keeps the  *)
(* container (VCALENDAR) that was last written to each address.            *)
(*                                                                         *)
(* ical_utils and caldav_client are modules of the repository whose code is *)
(* not part of src/: their operations are modelled from spec.md (sections  *)
(* 4.1, 4.2, 4.4 and 6).                                                   *)
(*                                                                         *)
(* icalendar is a library.  Its to_ical()/from_ical() pair is taken to     *)
(* give back the properties and subcomponents that were written, so the    *)
(* store holds containers in decoded form.  Whether next() accepts what    *)
(* Component.walk() returns depends on the installed release (a list is    *)
(* no iterator), so it is a choice made once per behaviour.                *)
(*                                                                         *)
(* Each tool is one action: a handler runs from its first line to its      *)
(* return with no other handler in between.  What the collaborators do     *)
(* (connect, fetch, zone enrichment, persist) is chosen per call.          *)
(***************************************************************************)
EXTENDS Integers, Sequences, FiniteSets, TLC

VARIABLES
    store,           \* remote store: address -> optional container
    now,             \* the clock, read by datetime.now(); one tick per tool call
    walkIsIterator,  \* whether Component.walk() of the installed icalendar yields an iterator
    last             \* what the most recent tool call did and returned

vars == <<store, now, walkIsIterator, last>>

(***************************************************************************)
(* Bounds of the model.                                                    *)
(***************************************************************************)
MaxClock == 2      \* tool calls in one behaviour
InitSeq == 1       \* largest SEQUENCE of an event that pre-exists in the store
MaxDay == 0        \* calendar days are 0..MaxDay
MaxInstant == 1    \* zoned instants named in requests are 0..MaxInstant
MaxAlarms == 2     \* length of an alarm_configs list

Urls == {"url1"}
NewUids == {"uuid1@icloud-caldav-mcp"}    \* what uuid4 can draw
Uids == {"uidA", "uidB"} \cup NewUids

(***************************************************************************)
(* Values.                                                                 *)
(***************************************************************************)
Absent == <<>>
Some(v) == <<v>>

DateVal(d) == [kind |-> "date", v |-> d]
InstantVal(t) == [kind |-> "instant", v |-> t]

\* Python truthiness of an Optional[str] argument: None and "" are falsy.
Truthy(opt) == opt /= Absent /\ opt[1] /= ""

\* str(x) of a property value read with Component.get(): the text itself for
\* a text property, and the four letters None for a missing one.
Str(opt) == IF opt = Absent THEN "None" ELSE opt[1]

\* A call that may raise: either a value or an exception.
Ok(v) == [raised |-> FALSE, val |-> Some(v)]
Raise == [raised |-> TRUE, val |-> Absent]

(***************************************************************************)
(* Request values.                                                         *)
(***************************************************************************)
\* Date/time text of a request: empty, malformed, date-only (YYYY-MM-DD) or
\* a date-time.  v is the day of a date-only text and the instant of a
\* date-time text (already resolved against timezone_name / UTC).
EmptyText == [kind |-> "empty", v |-> 0]
BadText == [kind |-> "bad", v |-> 0]
DateText(d) == [kind |-> "date", v |-> d]
InstantText(t) == [kind |-> "instant", v |-> t]
TimeTexts ==
    {EmptyText, BadText} \cup {DateText(d) : d \in 0..MaxDay}
                         \cup {InstantText(t) : t \in 0..MaxInstant}

TextArgs == {Absent, Some("new")}

(***************************************************************************)
(* ical_utils (modelled from spec.md 4.1, 4.2, 4.4).                       *)
(***************************************************************************)
\* Midnight of day d as an instant: two instants per day.
Midnight(d) == 2 * d

\* parse(text, zone_hint?) -> instant | null: empty text is null, malformed
\* text raises MalformedTimestamp, and the function only ever yields
\* instants, so date-only text is the instant at that day's midnight.
parse_iso_datetime(text) ==
    CASE text.kind = "empty" -> Ok(Absent)
      [] text.kind = "bad" -> Raise
      [] text.kind = "date" -> Ok(Some(InstantVal(Midnight(text.v))))
      [] OTHER -> Ok(Some(InstantVal(text.v)))

\* The revision of the original plus one, a missing revision read as 0.
get_sequence_number(orig) ==
    (IF orig.sequence = Absent THEN 0 ELSE orig.sequence[1]) + 1

(***************************************************************************)
(* icalendar: setting a DTSTART/DTEND property.  vDDDTypes accepts a date  *)
(* or a datetime and raises ValueError for None.                           *)
(***************************************************************************)
AddTime(parsed) ==
    IF parsed.raised \/ parsed.val[1] = Absent THEN Raise ELSE Ok(parsed.val[1][1])

\* original_event.get(name).dt: AttributeError when the property is missing.
DtOf(prop) == IF prop = Absent THEN Raise ELSE Ok(prop[1])

(***************************************************************************)
(* What a tool call did: the outcome handed to the caller and the effect   *)
(* on the store.  supplied (the overlay fields given to update_my_event)   *)
(* and alarm_configs / alarm_minutes_before (the reminder request given to *)
(* create_my_event) are recorded once the call gets to use them.           *)
(***************************************************************************)
NoEffect ==
    [raised |-> FALSE, success |-> FALSE, connected |-> FALSE,
     identified |-> FALSE, decoded |-> FALSE, nVevents |-> Absent,
     persistCalls |-> 0, persistRaised |-> FALSE, url |-> Absent,
     written |-> Absent, deleted |-> FALSE,
     alarmError |-> FALSE, tzRaised |-> FALSE,
     supplied |-> {}, alarm_configs |-> [kind |-> "absent", entries |-> <<>>],
     alarm_minutes_before |-> Absent]

\* An exception raised inside the try block, before any persisting call.
Raised(r) == [r EXCEPT !.raised = TRUE]

\* (The handler without its except clause: the exception leaves the tool.)
NoCatch(r) == r

\* try: ... except Exception as e: return {"success": False, "error": str(e)}
CatchAll(r) == IF r.raised THEN [r EXCEPT !.raised = FALSE, !.success = FALSE] ELSE r

(***************************************************************************)
(* caldav_client (modelled from spec.md 6): the transport collaborator.    *)
(***************************************************************************)
\* get_event_by_url_or_uid: the stored objects the address, or else the
\* stable identifier, names.  None found raises.
get_event_by_url_or_uid(event_url, uid) ==
    IF Truthy(event_url)
    THEN {u \in Urls : u = event_url[1] /\ store[u] /= Absent}
    ELSE {u \in Urls : store[u] /= Absent
                       /\ \E i \in 1..Len(store[u][1].vevents) :
                              store[u][1].vevents[i].uid = uid[1]}

\* What the collaborators do in one call: connect() returns or raises,
\* find_calendar() and the fetch return or raise, add_missing_timezones()
\* adds definitions or raises, and the persisting call
\* (add_event, save, delete) returns or raises.  A call that fails leaves
\* the later ones unmade, so their outcomes are not varied.
Collab ==
    {[connect |-> k, find |-> TRUE, tz |-> "none", persist |-> TRUE] :
        k \in {"raise", "false"}}
    \cup {[connect |-> "true", find |-> FALSE, tz |-> "none", persist |-> TRUE]}
    \cup [connect : {"true"}, find : {TRUE},
          tz : {"added", "raise"}, persist : BOOLEAN]

(***************************************************************************)
(* update_my_event                                                         *)
(***************************************************************************)
\* next(original_cal.walk("vevent")): the first VEVENT of the container.
\* next() of an exhausted iterator raises StopIteration; next() of an
\* object that is not an iterator (a list) raises TypeError.
FirstVevent(container) ==
    IF ~walkIsIterator \/ Len(container.vevents) = 0
    THEN Raise
    ELSE Ok(container.vevents[1])

\* (The new event stamped with the current time, as a created one is.)
NewIdentityRestamped(orig, clock) ==
    IF orig.dtstamp = Absent THEN Raise
    ELSE Ok([uid |-> orig.uid, dtstamp |-> Some(clock)])

\* new_event.add("uid", ...) and new_event.add("dtstamp", ...): both taken
\* from the original; a missing DTSTAMP has no .dt and raises.
NewIdentity(orig, clock) ==
    IF orig.dtstamp = Absent THEN Raise
    ELSE Ok([uid |-> orig.uid, dtstamp |-> orig.dtstamp])

\* new_event.add("dtstart"/"dtend", parse(arg) if arg else original.dt)
NewTime(text, origProp) ==
    IF text.kind /= "empty" THEN AddTime(parse_iso_datetime(text)) ELSE DtOf(origProp)

\* new_event.add(name, arg if arg else str(original_event.get(name)))
NewText(arg, origProp) == IF Truthy(arg) THEN arg ELSE Some(Str(origProp))

\* if rrule: add it; elif original_event.get("rrule"): add str() of it
\* (str() of the parsed rule is taken to be the rule's text)
NewRrule(arg, origProp) ==
    IF Truthy(arg) THEN arg
    ELSE IF origProp /= Absent THEN Some(Str(origProp)) ELSE Absent

\* (The original's SEQUENCE copied as it is.)
NewSequenceKept(orig) == orig.sequence

\* new_event.add("sequence", ical_utils.get_sequence_number(original_event))
NewSequence(orig) == Some(get_sequence_number(orig))

\* (The alarms added in reverse.)
CopyAlarmsReversed(orig) ==
    [i \in 1..Len(orig.alarms) |-> orig.alarms[Len(orig.alarms) + 1 - i]]

\* for a in original_event.walk("valarm"): new_event.add_component(a)
CopyAlarms(orig) == orig.alarms

\* The fields of the overlay the caller supplied (a truthy argument).
Supplied(ov) ==
    {f \in {"summary", "description", "location", "rrule"} : Truthy(ov[f])}
        \cup {f \in {"start", "end"} : ov[f].kind /= "empty"}

\* The body of the try block.
update_body(event_url, uid, ov, c, target) ==
    IF c.connect = "raise" THEN Raised(NoEffect)
    ELSE IF c.connect = "false" THEN NoEffect
    ELSE LET r1 == [NoEffect EXCEPT !.connected = TRUE] IN
    IF ~Truthy(event_url) /\ ~Truthy(uid) THEN r1
    ELSE LET r2 == [r1 EXCEPT !.identified = TRUE] IN
    IF ~c.find \/ target \notin get_event_by_url_or_uid(event_url, uid) THEN Raised(r2)
    ELSE LET container == store[target][1]
             r3 == [r2 EXCEPT !.url = Some(target),
                              !.nVevents = Some(Len(container.vevents))]
             first == FirstVevent(container) IN
    IF first.raised THEN Raised(r3)
    ELSE LET orig == first.val[1]
             r4 == [r3 EXCEPT !.decoded = TRUE]
             ident == NewIdentity(orig, now)
             dtstart == NewTime(ov.start, orig.dtstart)
             dtend == NewTime(ov.end, orig.dtend) IN
    IF ident.raised \/ dtstart.raised \/ dtend.raised THEN Raised(r4)
    ELSE LET new_event ==
                 [uid |-> ident.val[1].uid,
                  dtstamp |-> ident.val[1].dtstamp,
                  dtstart |-> dtstart.val,
                  dtend |-> dtend.val,
                  summary |-> NewText(ov.summary, orig.summary),
                  description |-> NewText(ov.description, orig.description),
                  location |-> NewText(ov.location, orig.location),
                  rrule |-> NewRrule(ov.rrule, orig.rrule),
                  sequence |-> NewSequence(orig),
                  alarms |-> CopyAlarms(orig)]
             new_cal == [vevents |-> <<new_event>>, timezones |-> (c.tz = "added")]
             r5 == [r4 EXCEPT !.supplied = Supplied(ov),
                              !.tzRaised = (c.tz = "raise"),
                              !.persistCalls = 1] IN
    IF ~c.persist THEN Raised([r5 EXCEPT !.persistRaised = TRUE])
    ELSE [r5 EXCEPT !.written = Some(new_cal), !.success = TRUE]

(***************************************************************************)
(* Reminders.                                                              *)
(***************************************************************************)
DefaultMinutes == 15

\* str.upper() on the anchors and actions that occur.
Upper(t) ==
    CASE t = "start" -> "START"
      [] t = "end" -> "END"
      [] t = "display" -> "DISPLAY"
      [] t = "audio" -> "AUDIO"
      [] OTHER -> t

\* ical_utils.create_alarm, modelled from spec.md 4.2:
\* build(offset_minutes, message="Reminder", action="DISPLAY", anchor="START").
\* A negative offset raises InvalidReminderOffset, anchor and action are
\* case-normalised, an unrecognised anchor raises InvalidAnchor.
create_alarm(minutes_before, description, action, related) ==
    IF minutes_before < 0 \/ Upper(related) \notin {"START", "END"}
    THEN Raise
    ELSE Ok([minutes |-> minutes_before, description |-> description,
             action |-> Upper(action), related |-> Upper(related)])

\* An entry of the parsed alarm_configs list: a JSON object with optional
\* keys, or (isObject = FALSE) a JSON value that is no object.
Cfg(isObject, minutes, description, action, related) ==
    [isObject |-> isObject, minutes_before |-> minutes,
     description |-> description, action |-> action, related |-> related]
CfgDefault == Cfg(TRUE, Absent, Absent, Absent, Absent)
CfgCustom == Cfg(TRUE, Some(5), Some("msg"), Some("audio"), Some("end"))
CfgNegative == Cfg(TRUE, Some(-1), Absent, Absent, Absent)
CfgBadAnchor == Cfg(TRUE, Absent, Absent, Absent, Some("bogus"))
CfgNotObject == Cfg(FALSE, Absent, Absent, Absent, Absent)
CfgEntries == {CfgDefault, CfgCustom, CfgNegative, CfgBadAnchor, CfgNotObject}

\* dict.get(key, default)
GetOr(opt, default) == IF opt = Absent THEN default ELSE opt[1]

\* One pass of the loop body: alarm_config.get(...) raises AttributeError on
\* a value that is no object, create_alarm may raise.
AlarmOf(cfg) ==
    IF ~cfg.isObject THEN Raise
    ELSE create_alarm(GetOr(cfg.minutes_before, DefaultMinutes),
                      GetOr(cfg.description, "Reminder"),
                      GetOr(cfg.action, "DISPLAY"),
                      GetOr(cfg.related, "START"))

\* The for loop inside try/except Exception: pass.  The alarms added before
\* an entry raises stay on the event; the exception is discarded.
RECURSIVE AddAlarms(_, _)
AddAlarms(entries, acc) ==
    IF entries = <<>> THEN [alarms |-> acc, error |-> FALSE]
    ELSE LET a == AlarmOf(Head(entries)) IN
         IF a.raised THEN [alarms |-> acc, error |-> TRUE]
         ELSE AddAlarms(Tail(entries), Append(acc, a.val[1]))

\* The alarm_configs argument: not given, a string json.loads() rejects (or
\* that is no list), or the JSON text of a list of entries.
NoConfigs == [kind |-> "absent", entries |-> <<>>]
InvalidConfigs == [kind |-> "invalid", entries |-> <<>>]
ListConfigs(entries) == [kind |-> "list", entries |-> entries]

\* Lines 183-199: the structured list if given, else alarm_minutes_before
\* if it is a non-negative integer, else no alarm.
BuildAlarms(alarm_configs, alarm_minutes_before) ==
    IF alarm_configs.kind = "invalid" THEN [alarms |-> <<>>, error |-> TRUE]
    ELSE IF alarm_configs.kind = "list" THEN AddAlarms(alarm_configs.entries, <<>>)
    ELSE IF alarm_minutes_before /= Absent /\ alarm_minutes_before[1] >= 0
         THEN [alarms |-> <<create_alarm(alarm_minutes_before[1], "Reminder",
                                         "DISPLAY", "START").val[1]>>,
               error |-> FALSE]
         ELSE [alarms |-> <<>>, error |-> FALSE]

(***************************************************************************)
(* create_my_event                                                         *)
(***************************************************************************)
\* date.fromisoformat(text.strip()): a date for date-only text, ValueError
\* for anything else.
DateFromIso(text) == IF text.kind = "date" THEN Ok(DateVal(text.v)) ELSE Raise

\* if arg: evt.add(name, arg)
OptionalText(arg) == IF Truthy(arg) THEN arg ELSE Absent

\* Lines 159-178: the start and end the event gets.
CreateTiming(start, end, all_day) ==
    LET start_dt == parse_iso_datetime(start)
        end_dt == parse_iso_datetime(end) IN
    IF start_dt.raised \/ end_dt.raised THEN Raise
    ELSE IF all_day
         THEN LET start_date == DateFromIso(start)
                  end_date == DateFromIso(end) IN
              IF start_date.raised \/ end_date.raised THEN Raise
              ELSE Ok([dtstart |-> start_date.val[1], dtend |-> end_date.val[1]])
         ELSE LET s == AddTime(start_dt)
                  e == AddTime(end_dt) IN
              IF s.raised \/ e.raised THEN Raise
              ELSE Ok([dtstart |-> s.val[1], dtend |-> e.val[1]])

\* The body of the try block.  a holds the arguments, fresh the uuid4 drawn
\* and target the address the server gives the new object (none: refused).
create_body(a, c, fresh, target) ==
    IF c.connect = "raise" THEN Raised(NoEffect)
    ELSE IF c.connect = "false" THEN NoEffect
    ELSE LET r1 == [NoEffect EXCEPT !.connected = TRUE]
             timing == CreateTiming(a.start, a.end, a.all_day) IN
    IF ~c.find \/ timing.raised THEN Raised(r1)
    ELSE LET built == BuildAlarms(a.alarm_configs, a.alarm_minutes_before)
             evt == [uid |-> fresh,
                     dtstamp |-> Some(now),
                     dtstart |-> Some(timing.val[1].dtstart),
                     dtend |-> Some(timing.val[1].dtend),
                     summary |-> Some(a.summary),
                     description |-> OptionalText(a.description),
                     location |-> OptionalText(a.location),
                     rrule |-> OptionalText(a.rrule),
                     sequence |-> Absent,
                     alarms |-> built.alarms]
             ics_cal == [vevents |-> <<evt>>, timezones |-> (c.tz = "added")]
             r2 == [r1 EXCEPT !.alarm_configs = a.alarm_configs,
                              !.alarm_minutes_before = a.alarm_minutes_before,
                              !.alarmError = built.error,
                              !.tzRaised = (c.tz = "raise"),
                              !.persistCalls = 1] IN
    IF ~c.persist \/ target = Absent THEN Raised([r2 EXCEPT !.persistRaised = TRUE])
    ELSE [r2 EXCEPT !.url = target, !.written = Some(ics_cal), !.success = TRUE]

(***************************************************************************)
(* delete_my_event                                                         *)
(***************************************************************************)
\* ev.delete() raises when the server fails or holds nothing at the address.
delete_body(event_url, c) ==
    IF c.connect = "raise" THEN Raised(NoEffect)
    ELSE IF c.connect = "false" THEN NoEffect
    ELSE LET r1 == [NoEffect EXCEPT !.connected = TRUE, !.url = Some(event_url),
                                    !.persistCalls = 1] IN
    IF ~c.persist \/ store[event_url] = Absent
    THEN Raised([r1 EXCEPT !.persistRaised = TRUE])
    ELSE [r1 EXCEPT !.deleted = TRUE, !.success = TRUE]

(***************************************************************************)
(* The store before the first tool call: objects other clients wrote.      *)
(***************************************************************************)
OrigAlarm(m, related) ==
    [minutes |-> m, description |-> "Reminder", action |-> "DISPLAY", related |-> related]
AlarmsABC == <<OrigAlarm(30, "START"), OrigAlarm(10, "START"), OrigAlarm(20, "END")>>

\* A stored event; every one has a UID, as RFC 5545 requires.
OrigEvent(t, d, r, q, al) ==
    [uid |-> "uidA", dtstamp |-> Some(0),
     dtstart |-> t.dtstart, dtend |-> t.dtend,
     summary |-> Some("orig"), description |-> d, location |-> Some("orig"),
     rrule |-> r, sequence |-> q, alarms |-> al]
AllDay0 == [dtstart |-> Some(DateVal(0)), dtend |-> Some(DateVal(0))]
Timed01 == [dtstart |-> Some(InstantVal(0)), dtend |-> Some(InstantVal(1))]

OrigEvents ==
    {OrigEvent(Timed01, Some("orig"), Absent, Absent, <<>>),
     OrigEvent(Timed01, Absent, Some("FREQ=DAILY"), Some(0), AlarmsABC),
     OrigEvent(AllDay0, Some("orig"), Some("FREQ=DAILY"), Some(InitSeq), AlarmsABC),
     OrigEvent(AllDay0, Absent, Absent, Absent, <<>>)}

\* An event with the optional properties missing, DTSTAMP included.
BareEvent ==
    [uid |-> "uidA", dtstamp |-> Absent,
     dtstart |-> Some(InstantVal(0)), dtend |-> Some(InstantVal(1)),
     summary |-> Absent, description |-> Absent, location |-> Absent,
     rrule |-> Absent, sequence |-> Absent, alarms |-> <<>>]

TwoEvents ==
    <<[BareEvent EXCEPT !.dtstamp = Some(0), !.summary = Some("first")],
      [BareEvent EXCEPT !.dtstamp = Some(0), !.summary = Some("second"), !.uid = "uidB"]>>

OrigContainers ==
    {[vevents |-> <<e>>, timezones |-> FALSE] : e \in OrigEvents \cup {BareEvent}}
        \cup {[vevents |-> <<>>, timezones |-> FALSE],
              [vevents |-> TwoEvents, timezones |-> FALSE]}

(***************************************************************************)
(* The tool calls.                                                         *)
(***************************************************************************)
NoCall == [op |-> "none", res |-> NoEffect]

\* The store after a call with outcome r.
Apply(r) ==
    IF r.written /= Absent THEN [store EXCEPT ![r.url[1]] = r.written]
    ELSE IF r.deleted THEN [store EXCEPT ![r.url[1]] = Absent]
    ELSE store

RECURSIVE SeqsUpTo(_, _)
SeqsUpTo(S, n) ==
    IF n = 0 THEN {<<>>}
    ELSE LET shorter == SeqsUpTo(S, n - 1) IN
         shorter \cup {Append(q, x) : q \in shorter, x \in S}

AlarmConfigArgs ==
    {NoConfigs, InvalidConfigs} \cup {ListConfigs(q) : q \in SeqsUpTo(CfgEntries, MaxAlarms)}
AlarmMinutesArgs == {Absent, Some(-1), Some(10)}

\* The arguments of create_my_event: every timing, every reminder request
\* and every optional text, each varied with the others at one value.
PlainCreate ==
    [summary |-> "new", start |-> InstantText(0), end |-> InstantText(1),
     description |-> Absent, location |-> Absent, all_day |-> FALSE,
     rrule |-> Absent, alarm_minutes_before |-> Absent, alarm_configs |-> NoConfigs]
CreateArgs ==
    {[PlainCreate EXCEPT !.start = s, !.end = e, !.all_day = d] :
        s \in TimeTexts, e \in TimeTexts, d \in BOOLEAN}
    \cup {[PlainCreate EXCEPT !.alarm_configs = k, !.alarm_minutes_before = m] :
        k \in AlarmConfigArgs, m \in AlarmMinutesArgs}
    \cup {[PlainCreate EXCEPT !.description = d, !.location = l, !.rrule = r] :
        d \in TextArgs, l \in TextArgs, r \in {Absent, Some("FREQ=WEEKLY")}}

\* The overlays of update_my_event: every pair of start and end with no
\* text supplied, each single text with nothing else supplied, and the
\* overlay that supplies every field.
NoOverlay ==
    [summary |-> Absent, start |-> EmptyText, end |-> EmptyText,
     description |-> Absent, location |-> Absent, rrule |-> Absent]
Overlays ==
    {[NoOverlay EXCEPT !.start = s, !.end = e] : s \in TimeTexts, e \in TimeTexts}
    \cup {[NoOverlay EXCEPT ![f] = Some("new")] : f \in {"summary", "description", "location"}}
    \cup {[NoOverlay EXCEPT !.rrule = Some("FREQ=WEEKLY")]}
    \cup {[summary |-> Some("new"), start |-> InstantText(0), end |-> InstantText(1),
           description |-> Some("new"), location |-> Some("new"),
           rrule |-> Some("FREQ=WEEKLY")]}

\* How the caller names the event: by address, by uid, or not at all.
Identifiers ==
    {[event_url |-> Some(u), uid |-> Absent] : u \in Urls}
    \cup {[event_url |-> Absent, uid |-> Some(i)] : i \in {"uidA"} \cup NewUids}
    \cup {[event_url |-> Absent, uid |-> Absent]}

FreeUrls == {u \in Urls : store[u] = Absent}

create_my_event ==
    /\ now <= MaxClock
    /\ \E a \in CreateArgs, c \in Collab, fresh \in NewUids,
          target \in IF FreeUrls = {} THEN {Absent} ELSE {Some(u) : u \in FreeUrls} :
          LET r == CatchAll(create_body(a, c, fresh, target)) IN
          /\ store' = Apply(r)
          /\ last' = [op |-> "create", res |-> r]
    /\ now' = now + 1
    /\ UNCHANGED walkIsIterator

update_my_event ==
    /\ now <= MaxClock
    /\ \E id \in Identifiers, ov \in Overlays, c \in Collab, target \in Urls :
          LET r == CatchAll(update_body(id.event_url, id.uid, ov, c, target)) IN
          /\ store' = Apply(r)
          /\ last' = [op |-> "update", res |-> r]
    /\ now' = now + 1
    /\ UNCHANGED walkIsIterator

delete_my_event ==
    /\ now <= MaxClock
    /\ \E event_url \in Urls, c \in Collab :
          LET r == CatchAll(delete_body(event_url, c)) IN
          /\ store' = Apply(r)
          /\ last' = [op |-> "delete", res |-> r]
    /\ now' = now + 1
    /\ UNCHANGED walkIsIterator

Init ==
    /\ store \in [Urls -> {Absent} \cup {Some(k) : k \in OrigContainers}]
    /\ now = 1
    /\ walkIsIterator \in BOOLEAN
    /\ last = NoCall

Next == create_my_event \/ update_my_event \/ delete_my_event

Spec == Init /\ [][Next]_vars

\* The store under updates and deletions only.
UpdateNext == update_my_event \/ delete_my_event
UpdateSpec == Init /\ [][UpdateNext]_vars

(***************************************************************************)
(* Vocabulary of the properties.                                           *)
(***************************************************************************)
\* The last call was a create / an update that handed an object to the
\* store, which took it.
Persisted == last.op \in {"create", "update"} /\ last.res.written /= Absent
PersistedEvent == last.res.written[1].vevents[1]

\* A step in which update_my_event read Original and persisted Updated.
UpdateStep == last'.op = "update" /\ last'.res.written /= Absent
Original == store[last'.res.url[1]][1].vevents[1]
Updated == store'[last'.res.url[1]][1].vevents[1]

Revision(e) == IF e.sequence = Absent THEN 0 ELSE e.sequence[1]

\* The last call was a successful update of an object that an earlier
\* update of this behaviour had already written.
SecondUpdate ==
    /\ last.op = "update"
    /\ last.res.success
    /\ now = 3
    /\ Revision(PersistedEvent) >= 2

----------------------------------------------------------------------------
\* C1  Identity immutability: the object update_my_event persists carries
\* the uid and the creation stamp (DTSTAMP) of the original it read,
\* whatever the arguments; so they survive any sequence of updates.
C1_IdentityImmutable ==
    [][UpdateStep => /\ Updated.uid = Original.uid
                     /\ Updated.dtstamp = Original.dtstamp]_vars

\* Two successive updates, the second with an overlay, of an event stamped
\* before the clock started.
C1_Witness ==
    /\ SecondUpdate
    /\ PersistedEvent.uid = "uidA"
    /\ PersistedEvent.dtstamp = Some(0)
    /\ "summary" \in last.res.supplied

Unchanged(f) ==
    CASE f = "start" -> Updated.dtstart = Original.dtstart
      [] f = "end" -> Updated.dtend = Original.dtend
      [] OTHER -> Updated[f] = Original[f]
C4_RemindersPreserved ==
    [][UpdateStep => Updated.alarms = Original.alarms]_vars

\* Reminders [A, B, C] after two successive updates.
C4_Witness ==
    /\ SecondUpdate
    /\ PersistedEvent.alarms = AlarmsABC

C6_TimedEndNotBeforeStart ==
    (/\ Persisted
     /\ PersistedEvent.dtstart[1].kind = "instant"
     /\ PersistedEvent.dtend[1].kind = "instant")
        => PersistedEvent.dtend[1].v >= PersistedEvent.dtstart[1].v

\* C7  No silent swallowing: an error while create_my_event builds the
\* reminders (alarm_configs not parseable, an invalid entry, a negative
\* alarm_minutes_before) makes the call fail with nothing persisted.
ReminderError ==
    \/ last.res.alarmError
    \/ /\ last.res.alarm_configs.kind = "absent"
       /\ last.res.alarm_minutes_before /= Absent
       /\ last.res.alarm_minutes_before[1] < 0
C7_ReminderErrorsSurface ==
    (last.op = "create" /\ ReminderError)
        => ~last.res.success /\ last.res.written = Absent

IsEntry(alarm, cfg) ==
    /\ cfg.isObject
    /\ alarm.minutes = GetOr(cfg.minutes_before, DefaultMinutes)
    /\ alarm.description = GetOr(cfg.description, "Reminder")
    /\ alarm.action = Upper(GetOr(cfg.action, "DISPLAY"))
    /\ alarm.related = Upper(GetOr(cfg.related, "START"))
C9_ReminderPrecedence ==
    (last.op = "create" /\ last.res.written /= Absent) =>
        LET alarms == PersistedEvent.alarms
            configs == last.res.alarm_configs
            minutes == last.res.alarm_minutes_before IN
        CASE configs.kind = "list" ->
                /\ Len(alarms) = Len(configs.entries)
                /\ \A i \in 1..Len(alarms) : IsEntry(alarms[i], configs.entries[i])
          [] configs.kind = "invalid" -> alarms = <<>>
          [] minutes = Absent -> alarms = <<>>
          [] minutes[1] >= 0 ->
                alarms = <<[minutes |-> minutes[1], description |-> "Reminder",
                            action |-> "DISPLAY", related |-> "START"]>>
          [] OTHER -> TRUE

\* C10  Failure boundary and persistence ordering: every call returns a
\* result with a success flag and lets no exception out; the persisting
\* call is made at most once, only after connect() returned true (for an
\* update, only after an identifier was given and the original fetched and
\* decoded); success means the persisting call returned; a call that does
\* not get to persist leaves the store as it was.
BoundaryOfCall(call) ==
    /\ ~call.res.raised
    /\ call.res.persistCalls <= 1
    /\ call.res.persistCalls = 1 => call.res.connected
    /\ (call.op = "update" /\ call.res.persistCalls = 1)
            => call.res.identified /\ call.res.decoded
    /\ call.res.success => call.res.persistCalls = 1 /\ ~call.res.persistRaised
C10_FailureBoundary ==
    /\ [](last.op /= "none" => BoundaryOfCall(last))
    /\ [][(~last'.res.connected
           \/ (last'.op = "update" /\ ~last'.res.identified)) => store' = store]_vars

\* A call whose persisting call raised, reported as a failure.
C10_Witness ==
    /\ last.op = "update"
    /\ last.res.persistCalls = 1
    /\ last.res.persistRaised
    /\ ~last.res.success

====
